---- MODULE Spec2Model ----
(***************************************************************************)
(* Model of translator-backend.py: the caption buffer (wrap_fa,            *)
(* CaptionState.commit_final_phrase), the broadcast to caption clients     *)
(* (broadcast_state, caption_server.handler), one AssemblyAI stream        *)
(* session (run_stream: audio_sender, receiver) and the retry loop (main). *)
(*                                                                         *)
(* Python strings are sequences of one-character strings.  One action is   *)
(* one run of a coroutine between two points where it really suspends.     *)
(***************************************************************************)
EXTENDS Integers, Sequences, FiniteSets, TLC

\* ------------------------------------------------------------------------
\* Bounds of the model
\* ------------------------------------------------------------------------
\* Longest text handed to wrap_fa in the specification SpecWrap.
MaxTextLen == 8
\* Largest character budget handed to wrap_fa in SpecWrap (0..MaxBudget).
MaxBudget == 4
\* Number of caption clients (browser websockets) that may be connected.
MaxSubs == 2
\* Provider messages received over the whole run.
MaxEvents == 2
\* Calls of run_stream made by main.
MaxAttempts == 2
\* Cap of audio_q (unbounded in the source, line 180).
MaxQueue == 1

\* The source sets MAX_DISPLAY_LINES = 6 and MAX_CHARS_PER_LINE = 35 (lines
\* 39-40).  Both are scaled down here so that the texts of the model wrap
\* into several lines and a few commits overflow the buffer.
MAX_DISPLAY_LINES == 2
MAX_CHARS_PER_LINE == 3

\* ------------------------------------------------------------------------
\* Strings
\* ------------------------------------------------------------------------
SP == " "
TAB == "\t"
Whitespace == {SP, TAB}
\* Characters of the texts handed to wrap_fa in SpecWrap.
Chars == {"a", "b", SP}

\* The empty Python string / empty list.
Empty == << >>

\* str.split() without arguments (line 86): the maximal runs of
\* non-whitespace characters, in order.
RECURSIVE SplitFrom(_, _, _, _)
SplitFrom(text, i, cur, words) ==
    IF i > Len(text)
    THEN IF cur = Empty THEN words ELSE Append(words, cur)
    ELSE IF text[i] \in Whitespace
         THEN SplitFrom(text, i + 1, Empty,
                        IF cur = Empty THEN words ELSE Append(words, cur))
         ELSE SplitFrom(text, i + 1, Append(cur, text[i]), words)

split(text) == SplitFrom(text, 1, Empty, Empty)

\* " ".join(words) (lines 94, 102).
RECURSIVE join(_)
join(words) ==
    IF words = Empty THEN Empty
    ELSE IF Len(words) = 1 THEN words[1]
    ELSE words[1] \o <<SP>> \o join(Tail(words))

\* str.strip() (lines 59, 236): drop leading and trailing whitespace.
RECURSIVE lstrip(_)
lstrip(text) ==
    IF text # Empty /\ Head(text) \in Whitespace THEN lstrip(Tail(text)) ELSE text

RECURSIVE rstrip(_)
rstrip(text) ==
    IF text # Empty /\ text[Len(text)] \in Whitespace
    THEN rstrip(SubSeq(text, 1, Len(text) - 1))
    ELSE text

strip(text) == rstrip(lstrip(text))

\* ------------------------------------------------------------------------
\* wrap_fa (lines 85-104)
\* ------------------------------------------------------------------------
\* Line 93: the current line is closed before the word w when adding w
\* would pass the budget and the current line is not empty.
WrapOverflowLoose(length, extra, current, max_chars) ==
    length + extra > max_chars

WrapOverflow(length, extra, current, max_chars) ==
    length + extra > max_chars /\ current # Empty

\* The for loop of lines 91-99 followed by lines 101-104.
RECURSIVE WrapLoop(_, _, _, _, _, _)
WrapLoop(words, i, lines_, current, length, max_chars) ==
    IF i > Len(words)
    THEN IF current # Empty THEN Append(lines_, join(current)) ELSE lines_
    ELSE LET w == words[i]
             extra == Len(w) + (IF current # Empty THEN 1 ELSE 0)
         IN  IF WrapOverflow(length, extra, current, max_chars)
             THEN WrapLoop(words, i + 1, Append(lines_, join(current)),
                           <<w>>, Len(w), max_chars)
             ELSE WrapLoop(words, i + 1, lines_, Append(current, w),
                           length + extra, max_chars)

wrap_fa(text, max_chars) == WrapLoop(split(text), 1, Empty, Empty, 0, max_chars)


\* ------------------------------------------------------------------------
\* Inputs of the model
\* ------------------------------------------------------------------------
\* Caption clients: one number per browser websocket.
Subs == 1 .. MaxSubs

\* msg["transcript"] of a provider message (line 235), before strip().
Transcripts == { Empty, <<SP>>, <<"a", SP>>, <<"b">> }

\* msg["type"] of a provider message (line 234).
MsgTypes == { "Turn", "FinalTranscript", "Begin" }

\* Texts the translation service returns (line 71).
FaTexts == { <<SP>>, <<"b">>, <<"a", "a", SP, "b", "b">> }

\* Items of audio_q: a PCM block (line 199) or the sentinel None (line 202).
PCM == "pcm"
None == "None"

\* ------------------------------------------------------------------------
\* Messages to caption clients
\* ------------------------------------------------------------------------
NoMsg == [type |-> "none", lines |-> Empty, text |-> Empty]

\* json.dumps({"type": "state", "lines": lines}) (lines 138, 158-161).
StateMsgStale(ls) ==
    [type |-> "state",
     lines |-> IF ls = Empty THEN Empty ELSE SubSeq(ls, 1, Len(ls) - 1),
     text |-> Empty]

StateMsg(ls) == [type |-> "state", lines |-> ls, text |-> Empty]

\* json.dumps({"type": "active", "text": fa}) (lines 256-259).
ActiveMsg(fa) == [type |-> "active", lines |-> Empty, text |-> fa]

\* ------------------------------------------------------------------------
\* State
\* ------------------------------------------------------------------------
VARIABLES
    lines,          \* caption_state.lines (line 110)
    committed,      \* history: every wrapped line ever appended (line 120)
    lock_owner,     \* holder of caption_state.lock (line 112)
    lock_waiters,   \* coroutines waiting for caption_state.lock, in order
    clients,        \* the set clients (line 132)
    h_pc,           \* position of handler(ws) for each caption client
    h_msg,          \* the state message handler(ws) is sending (line 157)
    ws_ok,          \* the client's websocket is open (a send succeeds)
    seen,           \* history: last state message each client received
    bc,             \* the asyncio.gather of sends in flight (lines 139, 261)
    main_pc,        \* position of main (lines 280-297)
    attempts,       \* calls of run_stream so far
    conn,           \* the AssemblyAI websocket of the session (line 208)
    snd_pc,         \* position of audio_sender (lines 217-226)
    rcv_pc,         \* position of receiver (lines 228-268)
    rcv_text,       \* transcript of the event the receiver is handling
    rcv_chunks,     \* chunks of the commit waiting for the lock (line 115)
    tr_result,      \* history: outcome of the en_to_fa call just finished
    audio_q,        \* audio_q (line 180)
    audio_threads,  \* live audio_thread threads (line 204)
    audio_stamp,    \* history: for each item of audio_q, the number of
                    \* run_stream calls made when it was queued
    snd_stamp,      \* history: the same for the block in ws.send (line 223)
    events,         \* provider messages received so far
    w_text, w_budget, w_result, w_pc,  \* one call of wrap_fa (SpecWrap)
    c_type, c_eot, c_raw               \* one provider message (SpecClassify)

caption_vars == <<lines, committed, lock_owner, lock_waiters>>
client_vars  == <<clients, h_pc, h_msg, ws_ok, seen>>
audio_hist   == <<audio_stamp, snd_stamp>>
stream_vars  == <<main_pc, attempts, conn, snd_pc, audio_q, audio_threads,
                  audio_stamp, snd_stamp>>
rcv_vars     == <<rcv_pc, rcv_text, rcv_chunks, tr_result, events>>
wrap_vars    == <<w_text, w_budget, w_result, w_pc, c_type, c_eot, c_raw>>

vars == <<lines, committed, lock_owner, lock_waiters, clients, h_pc, h_msg,
          ws_ok, seen, bc, main_pc, attempts, conn, snd_pc, rcv_pc, rcv_text,
          rcv_chunks, tr_result, audio_q, audio_threads, audio_stamp,
          snd_stamp, events, w_text, w_budget, w_result, w_pc,
          c_type, c_eot, c_raw>>

\* Outcomes of translator.en_to_fa (lines 58-71) for a final or a partial.
NoResult == <<"none", "none", Empty>>
Returned(kind, fa) == <<kind, "returned", fa>>
Raised(kind) == <<kind, "raised", Empty>>

\* Owners of caption_state.lock.
Free == <<"free", 0>>
CommitOwner == <<"commit", 0>>
HandlerOwner(c) == <<"handler", c>>

\* No gather in flight.
NoBroadcast ==
    [kind |-> "none", running |-> FALSE, payload |-> NoMsg, targets |-> {},
     pending |-> {}, delivered |-> {}, failed |-> {}]

\* State after module import: lines 129, 132, 180, before asyncio.run(main()).
InitPipeline ==
    /\ lines = Empty
    /\ committed = Empty
    /\ lock_owner = Free
    /\ lock_waiters = Empty
    /\ clients = {}
    /\ h_pc = [c \in Subs |-> "idle"]
    /\ h_msg = [c \in Subs |-> NoMsg]
    /\ ws_ok = [c \in Subs |-> FALSE]
    /\ seen = [c \in Subs |-> NoMsg]
    /\ bc = NoBroadcast
    /\ main_pc = "drain"
    /\ attempts = 0
    /\ conn = "none"
    /\ snd_pc = "none"
    /\ rcv_pc = "none"
    /\ rcv_text = Empty
    /\ rcv_chunks = Empty
    /\ tr_result = NoResult
    /\ audio_q = Empty
    /\ audio_threads = 0
    /\ audio_stamp = Empty
    /\ snd_stamp = 0
    /\ events = 0

\* The variables of SpecClassify when it is not the specification checked.
NoClassifyInput ==
    /\ c_type = "Turn"
    /\ c_eot = FALSE
    /\ c_raw = Empty

\* The variables of SpecWrap when it is not the specification checked.
NoWrapInput ==
    /\ w_text = Empty
    /\ w_budget = 0
    /\ w_result = Empty
    /\ w_pc = "idle"

Init ==
    /\ InitPipeline
    /\ NoWrapInput
    /\ NoClassifyInput


\* ------------------------------------------------------------------------
\* caption_state.lock (asyncio.Lock, lines 112, 119, 155)
\* ------------------------------------------------------------------------
\* Leaving "async with lock": the lock passes to the longest-waiting
\* coroutine, which continues in a later step; nobody can take it between.
ReleaseLock ==
    IF lock_waiters = Empty
    THEN /\ lock_owner' = Free
         /\ lock_waiters' = Empty
    ELSE /\ lock_owner' = Head(lock_waiters)
         /\ lock_waiters' = Tail(lock_waiters)

\* ------------------------------------------------------------------------
\* CaptionState.commit_final_phrase (lines 114-126)
\* ------------------------------------------------------------------------
\* Lines 122-124 without the slice: nothing is ever dropped.
EvictNever(ls, max_lines) == ls

\* Lines 122-124: drop the oldest lines beyond max_lines.
Evict(ls, max_lines) ==
    IF Len(ls) > max_lines
    THEN LET excess == Len(ls) - max_lines
         IN  SubSeq(ls, excess + 1, Len(ls))
    ELSE ls

\* Lines 116-117 without the early return.
NothingToCommitNever(chunks) == FALSE

\* Lines 116-117: "if not chunks: return".
NothingToCommit(chunks) == chunks = Empty

\* Lines 120-124 with the payload taken before the eviction.
CommitLinesNoEvict(ls, chunks) == ls \o chunks

\* Lines 120-124: the buffer after extending it with chunks.
CommitLines(ls, chunks) == Evict(ls \o chunks, MAX_DISPLAY_LINES)

\* asyncio.gather(..., return_exceptions=True) (lines 139-142, 261-264):
\* the sends still to finish once the send to c has failed.  Every other
\* send runs to its own end.
GatherAbortOnFailure(pending, c) == {}

GatherAfterFailure(pending, c) == pending \ {c}

\* The subscribers a broadcast sends to: list(clients) (lines 140, 262).
BroadcastTargetsButOne(cs) ==
    IF cs = {} THEN {} ELSE cs \ {CHOOSE c \in cs : \A d \in cs : c >= d}

BroadcastTargets(cs) == cs

\* Start of the gather over targets with one payload.
StartGather(kind, payload) ==
    bc' = [kind |-> kind, running |-> TRUE, payload |-> payload,
           targets |-> BroadcastTargets(clients),
           pending |-> BroadcastTargets(clients),
           delivered |-> {}, failed |-> {}]

\* Lines 119-126 with broadcast_state started as a task of its own instead
\* of awaited (line 126): the receiver goes back to ws.recv() while the
\* sends are still running.
CommitUnderLockDetached(chunks, waiters) ==
    /\ lines' = CommitLines(lines, chunks)
    /\ committed' = committed \o chunks
    /\ rcv_chunks' = Empty
    /\ IF clients = {}
       THEN /\ IF waiters = Empty
               THEN lock_owner' = Free /\ lock_waiters' = Empty
               ELSE lock_owner' = Head(waiters) /\ lock_waiters' = Tail(waiters)
            /\ rcv_pc' = "recv"
            /\ UNCHANGED bc
       ELSE /\ lock_owner' = CommitOwner
            /\ lock_waiters' = waiters
            /\ rcv_pc' = "recv"
            /\ StartGather("state", StateMsg(CommitLines(lines, chunks)))

\* Lines 119-126 once the lock is held: extend, evict, broadcast_state.
\* With no client broadcast_state returns at once (lines 136-137) and the
\* lock is released in the same run; otherwise the receiver waits in gather
\* holding the lock.
CommitUnderLock(chunks, waiters) ==
    /\ lines' = CommitLines(lines, chunks)
    /\ committed' = committed \o chunks
    /\ rcv_chunks' = Empty
    /\ IF clients = {}
       THEN /\ IF waiters = Empty
               THEN lock_owner' = Free /\ lock_waiters' = Empty
               ELSE lock_owner' = Head(waiters) /\ lock_waiters' = Tail(waiters)
            /\ rcv_pc' = "recv"
            /\ UNCHANGED bc
       ELSE /\ lock_owner' = CommitOwner
            /\ lock_waiters' = waiters
            /\ rcv_pc' = "bcast_state"
            /\ StartGather("state", StateMsg(CommitLines(lines, chunks)))

\* commit_final_phrase(fa_text) up to its first suspension (lines 114-126).
CommitFinalPhrase(fa_text) ==
    LET chunks == wrap_fa(fa_text, MAX_CHARS_PER_LINE)
    IN  IF NothingToCommit(chunks)
        THEN /\ rcv_pc' = "recv"
             /\ UNCHANGED <<caption_vars, bc, rcv_chunks>>
        ELSE IF lock_owner = Free
             THEN CommitUnderLock(chunks, lock_waiters)
             ELSE /\ lock_waiters' = Append(lock_waiters, CommitOwner)
                  /\ rcv_chunks' = chunks
                  /\ rcv_pc' = "commit_wait"
                  /\ UNCHANGED <<lines, committed, lock_owner, bc>>

\* The lock reaches the waiting commit (line 119).
CommitLockGranted ==
    /\ rcv_pc = "commit_wait"
    /\ lock_owner = CommitOwner
    /\ CommitUnderLock(rcv_chunks, lock_waiters)
    /\ tr_result' = NoResult
    /\ UNCHANGED <<client_vars, stream_vars, wrap_vars, rcv_text, events>>

\* ------------------------------------------------------------------------
\* The sends of a gather (lines 139-142, 261-264)
\* ------------------------------------------------------------------------
\* c.send(payload) succeeds: the client's websocket is open.
BroadcastSendOk(c) ==
    /\ bc.running
    /\ c \in bc.pending
    /\ ws_ok[c]
    /\ bc' = [bc EXCEPT !.pending = @ \ {c}, !.delivered = @ \cup {c}]
    /\ seen' = IF bc.kind = "state"
               THEN [seen EXCEPT ![c] = bc.payload]
               ELSE seen
    /\ UNCHANGED <<caption_vars, clients, h_pc, h_msg, ws_ok, stream_vars,
                   rcv_vars, wrap_vars>>

\* c.send(payload) raises: the client's websocket is closed.  gather keeps
\* the exception as a result.
BroadcastSendFail(c) ==
    /\ bc.running
    /\ c \in bc.pending
    /\ ~ws_ok[c]
    /\ bc' = [bc EXCEPT !.pending = GatherAfterFailure(@, c),
                        !.failed = @ \cup {c}]
    /\ UNCHANGED <<caption_vars, client_vars, stream_vars, rcv_vars, wrap_vars>>

\* Every send has finished: gather returns its results to the caller.
\* broadcast_state returns to commit_final_phrase, which leaves the lock
\* (line 126); the receiver goes back to ws.recv() (line 231).
GatherReturn ==
    /\ bc.running
    /\ bc.pending = {}
    /\ rcv_pc \in {"bcast_state", "bcast_active"}
    /\ bc' = NoBroadcast
    /\ IF rcv_pc = "bcast_state"
       THEN ReleaseLock
       ELSE UNCHANGED <<lock_owner, lock_waiters>>
    /\ rcv_pc' = "recv"
    /\ tr_result' = NoResult
    /\ UNCHANGED <<lines, committed, client_vars, stream_vars, wrap_vars,
                   rcv_text, rcv_chunks, events>>


\* ------------------------------------------------------------------------
\* caption_server.handler (lines 150-166)
\* ------------------------------------------------------------------------
\* Line 156 with the test always false.
HasLinesNever(ls) == FALSE

\* Line 156: "if caption_state.lines".
HasLines(ls) == ls # Empty

\* Lines 155-163 once the lock is held by handler(c): a state message is
\* sent when caption_state.lines is not empty (line 156); with an empty
\* buffer the lock is left at once and the handler waits for the close.
RegisterUnderLock(c, waiters) ==
    IF HasLines(lines)
    THEN /\ lock_owner' = HandlerOwner(c)
         /\ lock_waiters' = waiters
         /\ h_pc' = [h_pc EXCEPT ![c] = "sending"]
         /\ h_msg' = [h_msg EXCEPT ![c] = StateMsg(lines)]
    ELSE /\ IF waiters = Empty
            THEN lock_owner' = Free /\ lock_waiters' = Empty
            ELSE lock_owner' = Head(waiters) /\ lock_waiters' = Tail(waiters)
         /\ h_pc' = [h_pc EXCEPT ![c] = "wait_closed"]
         /\ h_msg' = [h_msg EXCEPT ![c] = NoMsg]

\* A browser connects: handler(ws) starts, lines 151-155.
Connect(c) ==
    /\ h_pc[c] = "idle"
    /\ ~(bc.running /\ c \in bc.pending)
    /\ clients' = clients \cup {c}
    /\ ws_ok' = [ws_ok EXCEPT ![c] = TRUE]
    /\ IF lock_owner = Free
       THEN RegisterUnderLock(c, lock_waiters)
       ELSE /\ lock_waiters' = Append(lock_waiters, HandlerOwner(c))
            /\ h_pc' = [h_pc EXCEPT ![c] = "wait_lock"]
            /\ h_msg' = [h_msg EXCEPT ![c] = NoMsg]
            /\ UNCHANGED lock_owner
    /\ UNCHANGED <<lines, committed, seen, bc, stream_vars, rcv_vars, wrap_vars>>

\* The lock reaches the waiting handler (line 155).
HandlerLockGranted(c) ==
    /\ h_pc[c] = "wait_lock"
    /\ lock_owner = HandlerOwner(c)
    /\ RegisterUnderLock(c, lock_waiters)
    /\ UNCHANGED <<lines, committed, clients, ws_ok, seen, bc, stream_vars,
                   rcv_vars, wrap_vars>>

\* ws.send of line 157 succeeds; the lock is left and the handler waits for
\* the close (line 163).
CatchupSendOk(c) ==
    /\ h_pc[c] = "sending"
    /\ ws_ok[c]
    /\ h_pc' = [h_pc EXCEPT ![c] = "wait_closed"]
    /\ h_msg' = [h_msg EXCEPT ![c] = NoMsg]
    /\ seen' = [seen EXCEPT ![c] = h_msg[c]]
    /\ ReleaseLock
    /\ UNCHANGED <<lines, committed, clients, ws_ok, bc, stream_vars, rcv_vars,
                   wrap_vars>>

\* handler(ws) ends: clients.discard(ws) (lines 164-165).
HandlerEnd(c) ==
    /\ clients' = clients \ {c}
    /\ h_pc' = [h_pc EXCEPT ![c] = "idle"]
    /\ h_msg' = [h_msg EXCEPT ![c] = NoMsg]
    /\ seen' = [seen EXCEPT ![c] = NoMsg]
    /\ UNCHANGED ws_ok

\* ws.send of line 157 raises: the lock is left and the finally block runs.
CatchupSendFail(c) ==
    /\ h_pc[c] = "sending"
    /\ ~ws_ok[c]
    /\ ReleaseLock
    /\ HandlerEnd(c)
    /\ UNCHANGED <<lines, committed, bc, stream_vars, rcv_vars, wrap_vars>>

\* The browser's connection closes or breaks; the handler has not seen it.
SubBreak(c) ==
    /\ h_pc[c] # "idle"
    /\ ws_ok[c]
    /\ ws_ok' = [ws_ok EXCEPT ![c] = FALSE]
    /\ UNCHANGED <<caption_vars, clients, h_pc, h_msg, seen, bc, stream_vars,
                   rcv_vars, wrap_vars>>

\* ws.wait_closed() returns (line 163) and the finally block runs.
Disconnect(c) ==
    /\ h_pc[c] = "wait_closed"
    /\ ~ws_ok[c]
    /\ HandlerEnd(c)
    /\ UNCHANGED <<caption_vars, bc, stream_vars, rcv_vars, wrap_vars>>

\* ------------------------------------------------------------------------
\* run_stream.receiver (lines 228-268)
\* ------------------------------------------------------------------------
\* Line 237 without the end_of_turn test.
is_final_tag_only(type, end_of_turn) == type = "FinalTranscript"

\* Line 237.
is_final(type, end_of_turn) == end_of_turn \/ type = "FinalTranscript"

\* Lines 252-255: the text shown for a partial whose translation raised.
PartialFallbackNothing(transcript) == Empty

PartialFallback(transcript) == transcript

\* Lines 256-264: the active message goes to list(clients).  gather over no
\* client returns without suspending.
BroadcastActive(fa) ==
    IF clients = {}
    THEN /\ rcv_pc' = "recv"
         /\ UNCHANGED bc
    ELSE /\ rcv_pc' = "bcast_active"
         /\ StartGather("active", ActiveMsg(fa))

\* ws.recv() returns a message (lines 231-249): it is classified up to the
\* await of the translation.
RecvMessage(type, end_of_turn, raw_transcript) ==
    /\ main_pc = "streaming"
    /\ rcv_pc = "recv"
    /\ conn = "open"
    /\ events < MaxEvents
    /\ events' = events + 1
    /\ LET transcript == strip(raw_transcript)
       IN  IF type \notin {"Turn", "FinalTranscript"} \/ transcript = Empty
           THEN UNCHANGED <<rcv_pc, rcv_text>>
           ELSE /\ rcv_text' = transcript
                /\ rcv_pc' = IF is_final(type, end_of_turn)
                             THEN "translate_final"
                             ELSE "translate_partial"
    /\ tr_result' = NoResult
    /\ UNCHANGED <<caption_vars, client_vars, bc, stream_vars, wrap_vars,
                   rcv_chunks>>

\* The except clause of lines 266-268: the receiver coroutine returns.
ReceiverExit ==
    /\ rcv_pc' = "exited"
    /\ rcv_text' = Empty

\* ws.recv() raises ConnectionClosed (line 231).
RecvError ==
    /\ main_pc = "streaming"
    /\ rcv_pc = "recv"
    /\ conn = "closed"
    /\ ReceiverExit
    /\ tr_result' = NoResult
    /\ UNCHANGED <<caption_vars, client_vars, bc, stream_vars, wrap_vars,
                   rcv_chunks, events>>

\* json.loads(raw) raises on a message that is not JSON (line 232).
RecvMalformed ==
    /\ main_pc = "streaming"
    /\ rcv_pc = "recv"
    /\ conn = "open"
    /\ events < MaxEvents
    /\ events' = events + 1
    /\ ReceiverExit
    /\ tr_result' = NoResult
    /\ UNCHANGED <<caption_vars, client_vars, bc, stream_vars, wrap_vars,
                   rcv_chunks>>

\* translator.en_to_fa returns fa for a final (lines 245-247).
TranslateFinalOk(fa) ==
    /\ rcv_pc = "translate_final"
    /\ tr_result' = Returned("final", fa)
    /\ rcv_text' = Empty
    /\ CommitFinalPhrase(fa)
    /\ UNCHANGED <<client_vars, stream_vars, wrap_vars, events>>

\* translator.en_to_fa raises for a final (line 245): nothing catches it
\* before the except clause of line 266.
TranslateFinalFail ==
    /\ rcv_pc = "translate_final"
    /\ tr_result' = Raised("final")
    /\ ReceiverExit
    /\ UNCHANGED <<caption_vars, client_vars, bc, stream_vars, wrap_vars,
                   rcv_chunks, events>>

\* translator.en_to_fa returns fa for a partial (lines 252-264).
TranslatePartialOk(fa) ==
    /\ rcv_pc = "translate_partial"
    /\ tr_result' = Returned("partial", fa)
    /\ rcv_text' = Empty
    /\ BroadcastActive(fa)
    /\ UNCHANGED <<caption_vars, client_vars, stream_vars, wrap_vars,
                   rcv_chunks, events>>

\* translator.en_to_fa raises for a partial: fa = transcript (lines 254-255).
TranslatePartialFail ==
    /\ rcv_pc = "translate_partial"
    /\ tr_result' = Raised("partial")
    /\ rcv_text' = Empty
    /\ BroadcastActive(PartialFallback(rcv_text))
    /\ UNCHANGED <<caption_vars, client_vars, stream_vars, wrap_vars,
                   rcv_chunks, events>>


\* ------------------------------------------------------------------------
\* run_stream.audio_thread and run_stream.audio_sender (lines 186-226)
\* ------------------------------------------------------------------------
\* A live audio thread hands one PCM block to the loop (lines 197-199).
AudioPush ==
    /\ audio_threads > 0
    /\ Len(audio_q) < MaxQueue
    /\ audio_q' = Append(audio_q, PCM)
    /\ audio_stamp' = Append(audio_stamp, attempts)
    /\ UNCHANGED <<caption_vars, client_vars, bc, rcv_vars, wrap_vars,
                   main_pc, attempts, conn, snd_pc, audio_threads, snd_stamp>>

\* The audio device fails: the thread queues None and ends (lines 200-202).
AudioDeviceFail ==
    /\ audio_threads > 0
    /\ Len(audio_q) < MaxQueue
    /\ audio_q' = Append(audio_q, None)
    /\ audio_stamp' = Append(audio_stamp, attempts)
    /\ audio_threads' = audio_threads - 1
    /\ UNCHANGED <<caption_vars, client_vars, bc, rcv_vars, wrap_vars,
                   main_pc, attempts, conn, snd_pc, snd_stamp>>

\* audio_q.get() returns (line 220): None ends the sender (lines 221-222),
\* a PCM block is passed to ws.send (line 223).
SenderGet ==
    /\ main_pc = "streaming"
    /\ snd_pc = "get"
    /\ audio_q # Empty
    /\ audio_q' = Tail(audio_q)
    /\ audio_stamp' = Tail(audio_stamp)
    /\ snd_stamp' = IF Head(audio_q) = None THEN 0 ELSE Head(audio_stamp)
    /\ snd_pc' = IF Head(audio_q) = None THEN "exited" ELSE "sending"
    /\ UNCHANGED <<caption_vars, client_vars, bc, rcv_vars, wrap_vars,
                   main_pc, attempts, conn, audio_threads>>

\* ws.send(pcm) succeeds (line 223).
SenderSendOk ==
    /\ snd_pc = "sending"
    /\ conn = "open"
    /\ snd_pc' = "get"
    /\ snd_stamp' = 0
    /\ UNCHANGED <<caption_vars, client_vars, bc, rcv_vars, wrap_vars,
                   main_pc, attempts, conn, audio_q, audio_threads,
                   audio_stamp>>

\* ws.send(pcm) raises ConnectionClosed; the except clause of lines 224-226
\* ends the sender.
SenderSendFail ==
    /\ snd_pc = "sending"
    /\ conn = "closed"
    /\ snd_pc' = "exited"
    /\ snd_stamp' = 0
    /\ UNCHANGED <<caption_vars, client_vars, bc, rcv_vars, wrap_vars,
                   main_pc, attempts, conn, audio_q, audio_threads,
                   audio_stamp>>

\* ------------------------------------------------------------------------
\* main and run_stream (lines 182-213, 270-273, 280-297)
\* ------------------------------------------------------------------------
\* Lines 286-288 left out: the queue is kept as it is.
DrainQueueKeep(q) == q

\* Lines 286-288: get_nowait() until audio_q is empty.
DrainQueue(q) == Empty

\* Lines 286-291 and 183-213: main empties audio_q, calls run_stream, which
\* starts one more audio thread and waits for websockets.connect.
MainDrainAndRun ==
    /\ main_pc = "drain"
    /\ attempts < MaxAttempts
    /\ attempts' = attempts + 1
    /\ audio_q' = DrainQueue(audio_q)
    /\ audio_stamp' = DrainQueue(audio_stamp)
    /\ audio_threads' = audio_threads + 1
    /\ main_pc' = "connecting"
    /\ UNCHANGED <<caption_vars, client_vars, bc, rcv_vars, wrap_vars,
                   conn, snd_pc, snd_stamp>>

\* websockets.connect succeeds; both tasks are created (lines 270-273) and
\* run up to audio_q.get() and ws.recv().
ConnectOk ==
    /\ main_pc = "connecting"
    /\ main_pc' = "streaming"
    /\ conn' = "open"
    /\ snd_pc' = "get"
    /\ rcv_pc' = "recv"
    /\ UNCHANGED <<caption_vars, client_vars, bc, wrap_vars, attempts,
                   audio_q, audio_threads, audio_hist, rcv_text, rcv_chunks,
                   tr_result, events>>

\* websockets.connect raises: run_stream raises and main sleeps (292-294).
ConnectFail ==
    /\ main_pc = "connecting"
    /\ main_pc' = "sleep"
    /\ UNCHANGED <<caption_vars, client_vars, bc, rcv_vars, wrap_vars,
                   attempts, conn, snd_pc, audio_q, audio_threads, audio_hist>>

\* asyncio.sleep(3) ends (line 294).
BackoffDone ==
    /\ main_pc = "sleep"
    /\ main_pc' = "drain"
    /\ UNCHANGED <<caption_vars, client_vars, bc, rcv_vars, wrap_vars,
                   attempts, conn, snd_pc, audio_q, audio_threads, audio_hist>>

\* The provider closes the connection, or the network drops it.
ConnClose ==
    /\ conn = "open"
    /\ conn' = "closed"
    /\ UNCHANGED <<caption_vars, client_vars, bc, rcv_vars, wrap_vars,
                   main_pc, attempts, snd_pc, audio_q, audio_threads,
                   audio_hist>>

\* The end of a session that also clears the caption buffer.
SessionEndClearing ==
    /\ main_pc = "streaming"
    /\ snd_pc = "exited"
    /\ rcv_pc = "exited"
    /\ main_pc' = "drain"
    /\ conn' = "none"
    /\ snd_pc' = "none"
    /\ rcv_pc' = "none"
    /\ tr_result' = NoResult
    /\ lines' = Empty
    /\ UNCHANGED <<committed, lock_owner, lock_waiters, client_vars, bc,
                   wrap_vars, attempts, audio_q, audio_threads, audio_hist,
                   rcv_text, rcv_chunks, events>>

\* Both tasks have returned: gather returns (lines 270-273), the connection
\* is closed by "async with", run_stream returns without an exception and
\* main starts its loop again (line 284).
SessionEnd ==
    /\ main_pc = "streaming"
    /\ snd_pc = "exited"
    /\ rcv_pc = "exited"
    /\ main_pc' = "drain"
    /\ conn' = "none"
    /\ snd_pc' = "none"
    /\ rcv_pc' = "none"
    /\ tr_result' = NoResult
    /\ UNCHANGED <<caption_vars, client_vars, bc, wrap_vars, attempts,
                   audio_q, audio_threads, audio_hist, rcv_text, rcv_chunks,
                   events>>

\* ------------------------------------------------------------------------
\* Specification of the pipeline
\* ------------------------------------------------------------------------
Next ==
    \/ \E c \in Subs : Connect(c)
    \/ \E c \in Subs : HandlerLockGranted(c)
    \/ \E c \in Subs : CatchupSendOk(c)
    \/ \E c \in Subs : CatchupSendFail(c)
    \/ \E c \in Subs : SubBreak(c)
    \/ \E c \in Subs : Disconnect(c)
    \/ \E c \in Subs : BroadcastSendOk(c)
    \/ \E c \in Subs : BroadcastSendFail(c)
    \/ GatherReturn
    \/ CommitLockGranted
    \/ \E type \in MsgTypes, eot \in BOOLEAN, t \in Transcripts :
           RecvMessage(type, eot, t)
    \/ RecvError
    \/ RecvMalformed
    \/ \E fa \in FaTexts : TranslateFinalOk(fa)
    \/ TranslateFinalFail
    \/ \E fa \in FaTexts : TranslatePartialOk(fa)
    \/ TranslatePartialFail
    \/ AudioPush
    \/ AudioDeviceFail
    \/ SenderGet
    \/ SenderSendOk
    \/ SenderSendFail
    \/ MainDrainAndRun
    \/ ConnectOk
    \/ ConnectFail
    \/ BackoffDone
    \/ ConnClose
    \/ SessionEnd

Spec == Init /\ [][Next]_vars

\* ------------------------------------------------------------------------
\* Specification of one call of wrap_fa on a bounded input
\* ------------------------------------------------------------------------
\* All texts over Chars of length at most n.
RECURSIVE TextsUpTo(_)
TextsUpTo(n) ==
    IF n = 0 THEN { Empty }
    ELSE LET shorter == TextsUpTo(n - 1)
         IN  shorter \cup { Append(t, ch) : t \in shorter, ch \in Chars }

InitWrap ==
    /\ InitPipeline
    /\ NoClassifyInput
    /\ w_text \in TextsUpTo(MaxTextLen)
    /\ w_budget \in 0 .. MaxBudget
    /\ w_result = Empty
    /\ w_pc = "call"

\* lines = wrap_fa(text, max_chars)
WrapCall ==
    /\ w_pc = "call"
    /\ w_result' = wrap_fa(w_text, w_budget)
    /\ w_pc' = "done"
    /\ UNCHANGED <<caption_vars, client_vars, bc, stream_vars, rcv_vars,
                   w_text, w_budget, c_type, c_eot, c_raw>>

NextWrap == WrapCall

SpecWrap == InitWrap /\ [][NextWrap]_vars


\* ------------------------------------------------------------------------
\* Specification of the receiver reading one provider message
\* ------------------------------------------------------------------------
\* Longest transcript of the message.
MaxTranscriptLen == 3

\* msg["type"] of the message.
ClassifyTypes == { "Turn", "FinalTranscript", "Begin", "Termination" }

\* A session that has just started streaming (after ConnectOk) and whose
\* receiver waits in ws.recv() for a message drawn from the bounded inputs.
InitClassify ==
    /\ lines = Empty
    /\ committed = Empty
    /\ lock_owner = Free
    /\ lock_waiters = Empty
    /\ clients = {}
    /\ h_pc = [c \in Subs |-> "idle"]
    /\ h_msg = [c \in Subs |-> NoMsg]
    /\ ws_ok = [c \in Subs |-> FALSE]
    /\ seen = [c \in Subs |-> NoMsg]
    /\ bc = NoBroadcast
    /\ main_pc = "streaming"
    /\ attempts = 1
    /\ conn = "open"
    /\ snd_pc = "get"
    /\ rcv_pc = "recv"
    /\ rcv_text = Empty
    /\ rcv_chunks = Empty
    /\ tr_result = NoResult
    /\ audio_q = Empty
    /\ audio_threads = 1
    /\ audio_stamp = Empty
    /\ snd_stamp = 0
    /\ events = 0
    /\ NoWrapInput
    /\ c_type \in ClassifyTypes
    /\ c_eot \in BOOLEAN
    /\ c_raw \in TextsUpTo(MaxTranscriptLen)

\* The receiver reads the message (lines 231-249).
ClassifyRecv ==
    /\ events = 0
    /\ RecvMessage(c_type, c_eot, c_raw)

NextClassify == ClassifyRecv

SpecClassify == InitClassify /\ [][NextClassify]_vars

\* ------------------------------------------------------------------------
\* Properties
\* ------------------------------------------------------------------------
Min(a, b) == IF a <= b THEN a ELSE b

\* The last n elements of a sequence.
LastN(seq, n) == SubSeq(seq, Len(seq) - n + 1, Len(seq))

\* A single word: not empty and without whitespace.
IsWord(line) == line # Empty /\ \A k \in 1 .. Len(line) : line[k] \notin Whitespace

\* A text that is empty or whitespace only.
IsBlank(text) == \A k \in 1 .. Len(text) : text[k] \in Whitespace

\* handler(c) takes a step past "async with caption_state.lock" (line 155).
PassesLock(c) ==
    /\ h_pc[c] \in {"idle", "wait_lock"}
    /\ h_pc'[c] \in {"sending", "wait_closed"}

\* C1: after any sequence of commits the caption buffer holds at most
\* max_lines lines, and they are exactly the last min(max_lines, total)
\* lines of all wrapped lines ever committed, in their original order.
C1_EvictionInvariant ==
    /\ Len(lines) <= MAX_DISPLAY_LINES
    /\ lines = LastN(committed, Min(MAX_DISPLAY_LINES, Len(committed)))

\* A commit of several lines has pushed older lines out of the buffer.
C1_Witness ==
    /\ Len(committed) > MAX_DISPLAY_LINES
    /\ Len(lines) = MAX_DISPLAY_LINES
    /\ lines[1] # lines[Len(lines)]

\* C2: every line wrap_fa returns is at most max_chars long, except a line
\* that is one single word longer than max_chars; and the lines joined by
\* single spaces are the words of the input joined by single spaces.
C2_WrapLaw ==
    w_pc = "done" =>
        /\ \A i \in 1 .. Len(w_result) :
               \/ Len(w_result[i]) <= w_budget
               \/ IsWord(w_result[i])
        /\ join(w_result) = join(split(w_text))

\* wrap_fa returned a line of two words within the budget and a line that
\* is one word longer than the budget.
C2_Witness ==
    /\ w_pc = "done"
    /\ \E i \in 1 .. Len(w_result) :
           ~IsWord(w_result[i]) /\ Len(w_result[i]) <= w_budget
    /\ \E i \in 1 .. Len(w_result) :
           IsWord(w_result[i]) /\ Len(w_result[i]) > w_budget

\* C3: committing an empty or whitespace-only phrase changes neither the
\* buffer nor the lock, and starts no broadcast, in whatever state the
\* phrase arrives.
C3_EmptyCommitNoOp ==
    [][ (/\ rcv_pc = "translate_final"
         /\ tr_result'[2] = "returned"
         /\ IsBlank(tr_result'[3]))
        => /\ lines' = lines
           /\ committed' = committed
           /\ bc' = bc
           /\ lock_owner' = lock_owner
           /\ lock_waiters' = lock_waiters
           /\ rcv_pc' = "recv" ]_vars

\* A blank phrase was committed while the buffer had lines and a client was
\* registered.
C3_Witness ==
    /\ tr_result[1] = "final"
    /\ tr_result[2] = "returned"
    /\ IsBlank(tr_result[3])
    /\ rcv_pc = "recv"
    /\ lines # Empty
    /\ \E c \in Subs : h_pc[c] = "wait_closed"

\* C4: the state message handler(ws) sends at registration carries the
\* caption buffer as it is while the message is being sent, whatever
\* commits run concurrently; and a client that registers once something was
\* committed is sent that message.
C4_CatchUp ==
    /\ [](\A c \in Subs : h_pc[c] = "sending" => h_msg[c] = StateMsg(lines))
    /\ [][ \A c \in Subs :
               (PassesLock(c) /\ committed # Empty)
               => /\ h_pc'[c] = "sending"
                  /\ h_msg'[c].lines = lines' ]_vars

\* A client is being sent a full buffer while the next commit, which will
\* evict lines of it, waits for the lock.
C4_Witness ==
    \E c \in Subs :
        /\ h_pc[c] = "sending"
        /\ Len(lines) = MAX_DISPLAY_LINES
        /\ h_msg[c].lines = lines
        /\ rcv_pc = "commit_wait"

\* C5 as claimed: every registration adds the client to clients and sends
\* it one state message with the current buffer, whatever the buffer holds.
C5_Original ==
    [][ \A c \in Subs :
            PassesLock(c)
            => /\ c \in clients'
               /\ h_pc'[c] = "sending"
               /\ h_msg'[c] = StateMsg(lines) ]_vars

\* C5 amended: every registration adds the client to clients; once the
\* handler holds the lock it sends one state message with the current
\* buffer if the buffer is not empty, and nothing if the buffer is empty.
C5_Amended ==
    [][ \A c \in Subs :
            /\ (h_pc[c] = "idle" /\ h_pc'[c] # "idle") => c \in clients'
            /\ PassesLock(c)
               => /\ c \in clients'
                  /\ IF lines # Empty
                     THEN h_pc'[c] = "sending" /\ h_msg'[c] = StateMsg(lines)
                     ELSE h_pc'[c] = "wait_closed" /\ h_msg'[c] = NoMsg ]_vars

\* One client is being sent the buffer while another one, registered
\* earlier, waits for its close.
C5_Witness ==
    \E c, d \in Subs :
        /\ h_pc[c] = "sending"
        /\ h_msg[c].lines # Empty
        /\ h_pc[d] = "wait_closed"

\* C6: a gather in which some sends fail still delivers to every other
\* target, returns to its caller as usual, and removes no client from
\* clients.
C6_BroadcastIsolation ==
    [][ /\ (bc.running /\ ~bc'.running)
           => /\ bc.targets \ bc.failed = bc.delivered
              /\ rcv_pc' = "recv"
              /\ clients' = clients
        /\ (bc.running /\ bc'.running /\ bc' # bc)
           => /\ clients' = clients
              /\ bc'.targets = bc.targets
              /\ bc'.delivered \cup bc'.failed \cup bc'.pending = bc.targets
      ]_vars

\* A gather is about to return with one send failed and one delivered.
C6_Witness ==
    /\ bc.running
    /\ bc.pending = {}
    /\ bc.failed # {}
    /\ bc.delivered # {}
    /\ bc.failed \subseteq clients

\* C7: when the translation of a partial raises, an active message with
\* the transcript itself goes to every registered client, and the receiver
\* and the session carry on.
C7_PartialFallback ==
    [][ (rcv_pc = "translate_partial" /\ tr_result'[2] = "raised")
        => /\ rcv_pc' \in {"recv", "bcast_active"}
           /\ clients # {}
              => /\ rcv_pc' = "bcast_active"
                 /\ bc'.running
                 /\ bc'.payload = ActiveMsg(rcv_text)
                 /\ bc'.pending = clients
           /\ main_pc' = main_pc
           /\ snd_pc' = snd_pc
           /\ conn' = conn ]_vars

\* The transcript of a partial whose translation raised is being sent to
\* two clients.
C7_Witness ==
    /\ tr_result = Raised("partial")
    /\ bc.running
    /\ bc.payload = ActiveMsg(<<"a">>)
    /\ Cardinality(bc.targets) >= 2

\* C8 as claimed: when the translation of a final raises, nothing is
\* committed or broadcast for it and the receiver goes on to the next
\* event of the session.
C8_Original ==
    [][ (rcv_pc = "translate_final" /\ tr_result'[2] = "raised")
        => /\ lines' = lines
           /\ committed' = committed
           /\ bc' = bc
           /\ rcv_pc' = "recv" ]_vars

\* C9: a final whose translation returns a phrase that wraps to at least
\* one line is committed once, and the commit sends a state message with
\* the buffer after eviction to every client registered at that moment;
\* with no client nothing is sent and nothing is kept for later.
C9_CommitBroadcast ==
    [][ /\ (/\ rcv_pc = "translate_final"
            /\ tr_result'[2] = "returned"
            /\ wrap_fa(tr_result'[3], MAX_CHARS_PER_LINE) # Empty)
           => LET chunks == wrap_fa(tr_result'[3], MAX_CHARS_PER_LINE)
              IN  \/ committed' = committed \o chunks
                  \/ /\ rcv_pc' = "commit_wait"
                     /\ rcv_chunks' = chunks
                     /\ committed' = committed
        /\ (rcv_pc = "commit_wait" /\ rcv_pc' # "commit_wait")
           => committed' = committed \o rcv_chunks
        /\ (committed' # committed)
           => /\ Len(committed') > Len(committed)
              /\ lines' = LastN(committed',
                                Min(MAX_DISPLAY_LINES, Len(committed')))
              /\ IF clients = {}
                 THEN bc' = NoBroadcast /\ rcv_pc' = "recv"
                 ELSE /\ rcv_pc' = "bcast_state"
                      /\ bc'.running
                      /\ bc'.payload = StateMsg(lines')
                      /\ bc'.targets = clients
                      /\ bc'.pending = clients
        /\ (committed' = committed) => lines' = lines ]_vars

\* The state message of a commit that evicted lines is being sent to two
\* clients.
C9_Witness ==
    /\ bc.running
    /\ bc.kind = "state"
    /\ Cardinality(bc.targets) >= 2
    /\ Len(committed) > MAX_DISPLAY_LINES
    /\ bc.payload.lines = lines

\* C10 as claimed: once the receiver has failed, the session ends and the
\* audio sender is abandoned with it: the sender forwards nothing more on
\* the connection.
C10_Original ==
    [][ (main_pc = "streaming" /\ rcv_pc = "exited")
        => (snd_pc' = snd_pc \/ snd_pc' \in {"exited", "none"}) ]_vars


\* C11 as claimed: every session end, normal or failed, is followed by the
\* backoff wait before the next attempt starts.
C11_Original ==
    [][ (main_pc = "streaming" /\ main_pc' # "streaming")
        => main_pc' = "sleep" ]_vars

\* C12 as claimed: once audio_sender has taken the sentinel from audio_q
\* (it has ended while the connection is open), the session is over: the
\* receiver handles nothing more on it.
C12_Original ==
    [][ (main_pc = "streaming" /\ snd_pc = "exited" /\ conn = "open")
        => (rcv_pc' = rcv_pc \/ rcv_pc' \in {"exited", "none"}) ]_vars

\* C13 as claimed: at most one audio thread feeds audio_q, however many
\* sessions have been started.
C13_Original == audio_threads <= 1

\* The holder of the lock is waiting for a send to a client other than d.
HolderAwaitsSendToOther(d) ==
    \/ /\ lock_owner = CommitOwner
       /\ bc.running
       /\ bc.pending # {}
       /\ d \notin bc.pending
    \/ \E e \in Subs \ {d} : lock_owner = HandlerOwner(e) /\ h_pc[e] = "sending"

\* C14 as claimed: nothing waits on the send to one client: no joining
\* client waits for its state message, and no commit waits, behind a send
\* to another client that has not completed.
C14_Original ==
    /\ \A d \in Subs : h_pc[d] = "wait_lock" => ~HolderAwaitsSendToOther(d)
    /\ rcv_pc = "commit_wait"
       => ~(\E e \in Subs : lock_owner = HandlerOwner(e) /\ h_pc[e] = "sending")

\* C15: the drain before an attempt empties audio_q, so every block in
\* audio_q, and the block audio_sender is sending, was queued after the
\* drain of the current attempt.
C15_NoStaleAudio ==
    /\ [](/\ Len(audio_stamp) = Len(audio_q)
          /\ \A i \in 1 .. Len(audio_stamp) : audio_stamp[i] = attempts
          /\ snd_pc = "sending" => snd_stamp = attempts)
    /\ [][ attempts' # attempts => (audio_q' = Empty /\ snd_pc # "sending") ]_vars

\* In the second session a block queued after the drain is being sent while
\* the next one is queued.
C15_Witness ==
    /\ attempts >= 2
    /\ snd_pc = "sending"
    /\ snd_stamp = attempts
    /\ audio_q # Empty

\* C16: the receiver reads the next message only when the event before it
\* is done with (no commit waiting or running, no gather in flight), each
\* commit belongs to the final in hand, and committed lines are only ever
\* appended, so they are in the order the finals were received.
C16_FinalsInOrder ==
    [][ /\ (events' # events)
           => /\ rcv_pc = "recv"
              /\ ~bc.running
              /\ rcv_chunks = Empty
              /\ lock_owner # CommitOwner
              /\ \A i \in 1 .. Len(lock_waiters) : lock_waiters[i] # CommitOwner
        /\ Len(committed') >= Len(committed)
        /\ SubSeq(committed', 1, Len(committed)) = committed
        /\ (committed' # committed)
           => /\ rcv_pc \in {"translate_final", "commit_wait"}
              /\ rcv_pc' \in {"recv", "bcast_state"} ]_vars

\* The lines of a second final are being broadcast behind the line of the
\* first.
C16_Witness ==
    /\ events = 2
    /\ Len(committed) = 3
    /\ committed[1] = <<"b">>
    /\ bc.running
    /\ bc.kind = "state"

\* C17: the end of a session, the backoff and the start of the next
\* session leave the caption buffer, the committed lines and the set of
\* clients as they are.
C17_ReconnectKeepsState ==
    [][ (main_pc' # main_pc \/ conn' # conn \/ attempts' # attempts)
        => /\ lines' = lines
           /\ committed' = committed
           /\ clients' = clients ]_vars

\* The second session streams with the lines committed in the first one and
\* a client registered.
C17_Witness ==
    /\ attempts = 2
    /\ main_pc = "streaming"
    /\ events = 1
    /\ rcv_pc = "recv"
    /\ lines # Empty
    /\ clients # {}

\* The receiver's position after a message, as the amended C18 states it.
ExpectedAfter(type, end_of_turn, raw) ==
    IF type \notin {"Turn", "FinalTranscript"} THEN "recv"
    ELSE IF IsBlank(raw) THEN "recv"
    ELSE IF end_of_turn \/ type = "FinalTranscript" THEN "translate_final"
    ELSE "translate_partial"

\* C18 as claimed: every message is a final if it has the end-of-turn
\* marker or the final-transcript type, otherwise a partial if its
\* transcript is not blank; a message with a blank transcript is ignored.
C18_Original ==
    events = 1 =>
        rcv_pc = IF IsBlank(c_raw) THEN "recv"
                 ELSE IF c_eot \/ c_type = "FinalTranscript"
                      THEN "translate_final"
                      ELSE "translate_partial"

\* C18 amended: a message whose type is neither Turn nor FinalTranscript is
\* ignored; a Turn or FinalTranscript message with a blank transcript is
\* ignored; otherwise it is a final if it has the end-of-turn marker or the
\* type FinalTranscript, and a partial if not.  An ignored message starts
\* no translation, commit or broadcast.
C18_Amended ==
    events = 1 =>
        /\ rcv_pc = ExpectedAfter(c_type, c_eot, c_raw)
        /\ rcv_pc = "recv"
           => /\ rcv_text = Empty
              /\ tr_result = NoResult
        /\ rcv_pc # "recv"
           => /\ split(rcv_text) = split(c_raw)
              /\ rcv_text[1] \notin Whitespace
              /\ rcv_text[Len(rcv_text)] \notin Whitespace
        /\ lines = Empty
        /\ bc = NoBroadcast
        /\ lock_owner = Free

\* A Turn message with the end-of-turn marker and a padded transcript was
\* taken as a final.
C18_Witness ==
    /\ events = 1
    /\ c_type = "Turn"
    /\ c_eot
    /\ rcv_pc = "translate_final"
    /\ c_raw # rcv_text

\* C19: the buffer changes only in a step in which the commit holds the
\* lock and no handler is sending; every state message in flight was built
\* by the holder of the lock, is the buffer as it is, and is never longer
\* than max_lines.
C19_SnapshotsUnderLock ==
    /\ [](/\ (bc.running /\ bc.kind = "state")
             => /\ lock_owner = CommitOwner
                /\ bc.payload.lines = lines
                /\ Len(bc.payload.lines) <= MAX_DISPLAY_LINES
                /\ \A c \in Subs : h_pc[c] # "sending"
          /\ \A c \in Subs :
                 h_pc[c] = "sending"
                 => /\ lock_owner = HandlerOwner(c)
                    /\ h_msg[c].lines = lines
                    /\ Len(h_msg[c].lines) <= MAX_DISPLAY_LINES
                    /\ \A d \in Subs \ {c} : h_pc[d] # "sending")
    /\ [][ (lines' # lines)
           => /\ lock_owner \in {Free, CommitOwner}
              /\ \A c \in Subs : h_pc[c] # "sending"
              /\ lock_owner' = CommitOwner \/ clients = {} ]_vars

\* The state message of a commit that evicted lines is in flight while a
\* new client waits for the lock.
C19_Witness ==
    /\ bc.running
    /\ bc.kind = "state"
    /\ Len(committed) > MAX_DISPLAY_LINES
    /\ \E c \in Subs : h_pc[c] = "wait_lock"

\* C20: every state message a client receives is the buffer as it is when
\* the message arrives, so none is older than one received before; and a
\* connected client with no send to it in flight has received the current
\* buffer (or nothing, while nothing has been committed).
C20_StateMessagesInOrder ==
    /\ [][ \A c \in Subs :
               (seen'[c] # seen[c] /\ seen'[c] # NoMsg)
               => seen'[c] = StateMsg(lines') ]_vars
    /\ [](\A c \in Subs :
              (/\ h_pc[c] = "wait_closed"
               /\ ws_ok[c]
               /\ ~(bc.running /\ bc.kind = "state" /\ c \in bc.pending))
              => \/ seen[c] = StateMsg(lines)
                 \/ seen[c] = NoMsg /\ lines = Empty)

\* A client that received the buffer when it registered has since received
\* the buffer of a later commit that evicted lines.
C20_Witness ==
    \E c \in Subs :
        /\ h_pc[c] = "wait_closed"
        /\ ws_ok[c]
        /\ ~bc.running
        /\ Len(committed) > MAX_DISPLAY_LINES
        /\ seen[c] = StateMsg(lines)

====
